---- MODULE Spec2Model ----
(***************************************************************************)
(* Model of crew_assets/tools.py: the five asset tools                     *)
(* (ImageResponsiveTool, ImageCompressTool, AudioNormalizeTool,            *)
(* AudioSpriteTool, GitOpsTool).  One behaviour is one tool call: the call *)
(* action draws the arguments, the step actions draw what the external     *)
(* collaborators (codec, ffprobe, ffmpeg, git) answer.                     *)
(*                                                                         *)
(* Strings the code transforms are sequences of one-character strings, so  *)
(* that upper(), lower() and strip() are computed, not assumed.  A path is *)
(* a record [dir, stem, ext]: its directory, the "_"-separated tokens of   *)
(* its stem, and the characters of its suffix (without the dot).           *)
(* Durations are in tenths of a second (2.0 s = 20).                       *)
(***************************************************************************)
EXTENDS Integers, Sequences, FiniteSets, TLC

VARIABLES
    pc,         \* position of the running call
    args,       \* arguments of the running call
    disk,       \* the filesystem: path -> content
    opened,     \* source files the call has opened for reading
    cmds,       \* external commands run so far, in order
    fmt,        \* ImageCompressTool._run: fmt after fmt.upper()
    quality,    \* ImageCompressTool._run: quality
    out_file,   \* ImageCompressTool._run: out_file (<<>> before it is set)
    encodings,  \* ImageCompressTool._run: the im.save calls, [quality, size]
    variants,   \* ImageResponsiveTool._run: the variants saved, in order
    out_paths,  \* ImageResponsiveTool._run: out_paths
    cue_map,    \* AudioSpriteTool._run: cue_map, a dict in insertion order
    cursor,     \* AudioSpriteTool._run: cursor
    idx,        \* index of the next loop element (clip or variant)
    cue_json,   \* the cue map documents written, in order
    repo,       \* the git repository: what add/commit/push have achieved
    ret,        \* the value returned (<<>> while none)
    error       \* the exception raised ("" while none)

vars == <<pc, args, disk, opened, cmds, fmt, quality, out_file, encodings,
          variants, out_paths, cue_map, cursor, idx, cue_json, repo, ret, error>>

----------------------------------------------------------------------------
(* Bounds of the model *)

MaxClips == 3
MaxWidth == 17
MaxTargetKb == 1

(* Constants of the program *)

KB == 1024
StartQuality == 80
QualityStep == 10
MinQuality == 10

----------------------------------------------------------------------------
(* Strings *)

LowerLetters == <<"a", "b", "e", "f", "g", "i", "n", "p", "v", "w">>
UpperLetters == <<"A", "B", "E", "F", "G", "I", "N", "P", "V", "W">>

UpperChar(c) ==
    IF \E i \in DOMAIN LowerLetters : LowerLetters[i] = c
    THEN UpperLetters[CHOOSE i \in DOMAIN LowerLetters : LowerLetters[i] = c]
    ELSE c

LowerChar(c) ==
    IF \E i \in DOMAIN UpperLetters : UpperLetters[i] = c
    THEN LowerLetters[CHOOSE i \in DOMAIN UpperLetters : UpperLetters[i] = c]
    ELSE c

Upper(s) == [i \in DOMAIN s |-> UpperChar(s[i])]
Lower(s) == [i \in DOMAIN s |-> LowerChar(s[i])]

Whitespace == {" ", "\n"}

RECURSIVE LStrip(_)
LStrip(s) ==
    IF s # <<>> /\ Head(s) \in Whitespace THEN LStrip(Tail(s)) ELSE s

RECURSIVE RStrip(_)
RStrip(s) ==
    IF s # <<>> /\ s[Len(s)] \in Whitespace
    THEN RStrip(SubSeq(s, 1, Len(s) - 1))
    ELSE s

Strip(s) == RStrip(LStrip(s))

----------------------------------------------------------------------------
(* Paths and the filesystem *)

ASSET_DIR == "assets"
IMG_DIR == "assets/images"
AUD_DIR == "assets/audio"

Path(d, s, e) == [dir |-> d, stem |-> s, ext |-> e]

Stem(p) == p.stem

\* pathlib's with_suffix: the last suffix replaced
WithSuffix(p, e) == [p EXCEPT !.ext = e]

Data(t, q, s) == [tag |-> t, param |-> q, size |-> s]
SourceData == Data("source", 0, 0)

Write(d, p, c) == [x \in (DOMAIN d) \cup {p} |-> IF x = p THEN c ELSE d[x]]
Unlink(d, p) == [x \in (DOMAIN d) \ {p} |-> d[x]]
Exists(d, p) == p \in DOMAIN d

\* One run of an external command: its name, its argument, whether it
\* exited with status 0, and what it printed.
Cmd(c, a, ok, out) == [cmd |-> c, arg |-> a, ok |-> ok, output |-> out]

PNG == <<"p", "n", "g">>
AVIF == <<"a", "v", "i", "f">>
WEBP == <<"w", "e", "b", "p">>
WAV == <<"w", "a", "v">>
MP3 == <<"m", "p", "3">>
OGG == <<"o", "g", "g">>
TXT == <<"t", "x", "t">>
JSON == <<"j", "s", "o", "n">>

ImagePaths ==
    { Path(d, s, e) : d \in {"in", IMG_DIR},
                      s \in {<<"hero">>, <<"hero", "169">>},
                      e \in {PNG, AVIF, WEBP} }

AudioPaths ==
    { Path(d, s, e) : d \in {"in", AUD_DIR}, s \in {<<"A">>, <<"B">>},
                      e \in {WAV, MP3, OGG} }

Clips ==
    { Path("in", <<"A">>, WAV), Path("in", <<"B">>, WAV),
      Path("in", <<"C">>, WAV), Path("alt", <<"A">>, WAV) }

InitialDisk == [p \in ImagePaths \cup AudioPaths \cup Clips |-> SourceData]

----------------------------------------------------------------------------
(* ImageCompressTool._run *)

Formats ==
    { Upper(AVIF), AVIF, <<"W", "e", "b", "P">>, Upper(PNG) }

SupportedFormats == { Upper(AVIF), Upper(WEBP) }

TargetSizes == 0..MaxTargetKb

\* Encoded sizes in bytes, around the budget of t kilobytes.
SizesFor(t) == { 0, KB * t, KB * t + (KB - 1), KB * (t + 1), KB * (t + 2) }

\* size_kb = st_size // 1024; size_kb <= target_size_kb
FitsBudget(size, target_size_kb) == (size \div KB) <= target_size_kb

\* pathlib.Path(png_path).with_suffix(f".{fmt.lower()}")
OutFile(png_path, f) == WithSuffix(png_path, Lower(f))

\* quality -= 10, taken in steps of 5
NextQualityHalfStep(q) == q - 5
\* quality -= 10
NextQuality(q) == q - QualityStep

CompressCall(png_path, f, target_size_kb) ==
    /\ pc = "idle"
    /\ args' = [tool |-> "ImageCompressTool", png_path |-> png_path,
                fmt |-> f, target_size_kb |-> target_size_kb]
    /\ fmt' = Upper(f)
    /\ IF Upper(f) \notin SupportedFormats
       THEN /\ error' = "ValueError"
            /\ pc' = "raised"
            /\ UNCHANGED <<opened, quality, out_file>>
       ELSE /\ opened' = opened \cup {png_path}
            /\ quality' = StartQuality
            /\ out_file' = <<OutFile(png_path, Upper(f))>>
            /\ pc' = "compress_loop"
            /\ error' = error
    /\ UNCHANGED <<disk, cmds, encodings, variants, out_paths, cue_map,
                   cursor, idx, cue_json, repo, ret>>

CompressEncode(size) ==
    /\ pc = "compress_loop"
    /\ quality >= MinQuality
    /\ disk' = Write(disk, out_file[1], Data("encoded", quality, size))
    /\ encodings' = Append(encodings, [quality |-> quality, size |-> size])
    /\ IF FitsBudget(size, args.target_size_kb)
       THEN /\ quality' = quality
            /\ pc' = "returned"
            /\ ret' = out_file
       ELSE /\ quality' = NextQuality(quality)
            /\ IF NextQuality(quality) >= MinQuality
               THEN pc' = "compress_loop" /\ ret' = ret
               ELSE pc' = "returned" /\ ret' = out_file
    /\ UNCHANGED <<args, opened, cmds, fmt, out_file, variants, out_paths,
                   cue_map, cursor, idx, cue_json, repo, error>>

----------------------------------------------------------------------------
(* ImageResponsiveTool._run *)

\* variants.items(), in insertion order: key, (w_ratio, h_ratio)
VariantItems ==
    << [key |-> "169", w_ratio |-> 16, h_ratio |-> 9],
       [key |-> "32", w_ratio |-> 3, h_ratio |-> 2],
       [key |-> "11", w_ratio |-> 1, h_ratio |-> 1] >>

Widths == 1..MaxWidth

\* n / d rounded to the nearest integer, halves to the even one (round())
RoundDiv(n, d) ==
    LET q == n \div d
        r == n % d
    IN  IF 2 * r < d THEN q
        ELSE IF 2 * r > d THEN q + 1
        ELSE IF q % 2 = 0 THEN q ELSE q + 1

\* round(target_w * h_ratio / w_ratio) in place of int(...)
TargetHRounded(target_w, w_ratio, h_ratio) == RoundDiv(target_w * h_ratio, w_ratio)
\* int(target_w * h_ratio / w_ratio): the quotient is not negative, and
\* int() truncates it.
TargetH(target_w, w_ratio, h_ratio) == (target_w * h_ratio) \div w_ratio

\* IMG_DIR / f"{stem}_{key}.png"
VariantPath(png_path, key) == Path(IMG_DIR, Append(Stem(png_path), key), PNG)

\* ImageOps.fit(src, (target_w, target_h), ...) returns an image of exactly
\* the requested size; it divides target_w by target_h, so a requested
\* height of 0 raises ZeroDivisionError.
FitRaises(target_w, target_h) == target_h = 0

ResponsiveCall(png_path, max_width) ==
    /\ pc = "idle"
    /\ args' = [tool |-> "ImageResponsiveTool", png_path |-> png_path,
                max_width |-> max_width]
    /\ opened' = opened \cup {png_path}
    /\ idx' = 1
    /\ pc' = "responsive_loop"
    /\ UNCHANGED <<disk, cmds, fmt, quality, out_file, encodings, variants,
                   out_paths, cue_map, cursor, cue_json, repo, ret, error>>

ResponsiveVariant ==
    /\ pc = "responsive_loop"
    /\ idx <= Len(VariantItems)
    /\ LET item == VariantItems[idx]
           target_w == args.max_width
           target_h == TargetH(target_w, item.w_ratio, item.h_ratio)
           out_name == VariantPath(args.png_path, item.key)
       IN  IF FitRaises(target_w, target_h)
           THEN /\ error' = "ZeroDivisionError"
                /\ pc' = "raised"
                /\ UNCHANGED <<disk, variants, out_paths, idx, ret>>
           ELSE /\ disk' = Write(disk, out_name,
                                 Data("variant", target_w, target_h))
                /\ variants' = Append(variants,
                       [key |-> item.key, path |-> out_name,
                        width |-> target_w, height |-> target_h])
                /\ out_paths' = Append(out_paths, out_name)
                /\ idx' = idx + 1
                /\ error' = error
                /\ IF idx = Len(VariantItems)
                   THEN pc' = "returned" /\ ret' = Append(out_paths, out_name)
                   ELSE pc' = "responsive_loop" /\ ret' = ret
    /\ UNCHANGED <<args, opened, cmds, fmt, quality, out_file, encodings,
                   cue_map, cursor, cue_json, repo>>

----------------------------------------------------------------------------
(* AudioNormalizeTool._run *)

TargetLufs == {-14, -20}

NormalizeCall(wav_or_mp3_path, target_lufs) ==
    /\ pc = "idle"
    /\ args' = [tool |-> "AudioNormalizeTool", path |-> wav_or_mp3_path,
                target_lufs |-> target_lufs]
    /\ opened' = opened \cup {wav_or_mp3_path}
    /\ LET ogg_path == Path(AUD_DIR, Stem(wav_or_mp3_path), OGG)
           mp3_path == Path(AUD_DIR, Stem(wav_or_mp3_path), MP3)
       IN  /\ disk' = Write(Write(disk, ogg_path, Data("export", 96, 0)),
                            mp3_path, Data("export", 128, 0))
           /\ ret' = <<ogg_path>>
    /\ pc' = "returned"
    /\ UNCHANGED <<cmds, fmt, quality, out_file, encodings, variants,
                   out_paths, cue_map, cursor, idx, cue_json, repo, error>>

----------------------------------------------------------------------------
(* AudioSpriteTool._run *)

RECURSIVE SeqsUpTo(_, _)
SeqsUpTo(S, n) ==
    IF n = 0 THEN {<<>>}
    ELSE LET shorter == SeqsUpTo(S, n - 1)
         IN  shorter \cup { Append(q, x) : q \in shorter, x \in S }

ClipLists == SeqsUpTo(Clips, MaxClips)

\* Durations ffprobe reports, in tenths of a second.
Durations == {10, 20, 35}

\* uuid.uuid4().hex: a name no file of the disk has yet.
SpriteId == <<"uuid">>

ConcatTxt == Path(AUD_DIR, SpriteId, TXT)
SpritePath == Path(AUD_DIR, SpriteId, OGG)
CuePath == WithSuffix(SpritePath, JSON)

\* cue_map[key] = [cursor, dur] on a dict: a new key is appended, a key
\* already present keeps its place and takes the new value.
DictSet(d, key, cur, dur) ==
    IF \E i \in DOMAIN d : d[i].key = key
    THEN [i \in DOMAIN d |->
            IF d[i].key = key
            THEN [key |-> key, offset |-> cur, duration |-> dur]
            ELSE d[i]]
    ELSE Append(d, [key |-> key, offset |-> cur, duration |-> dur])

\* len(paths) < 1 in place of len(paths) < 2
TooFewClipsOffByOne(paths) == Len(paths) < 1
\* len(paths) < 2
TooFewClips(paths) == Len(paths) < 2

\* the cue map written, the concat list left in place
FinishNoUnlink(d, n) == Write(d, CuePath, Data("cuemap", n, 0))
\* concat_txt.unlink(missing_ok=True), then the cue map of n entries
\* written to sprite_path.with_suffix(".json")
Finish(d, n) == Write(Unlink(d, ConcatTxt), CuePath, Data("cuemap", n, 0))

SpriteCall(paths) ==
    /\ pc = "idle"
    /\ args' = [tool |-> "AudioSpriteTool", paths |-> paths]
    /\ IF TooFewClips(paths)
       THEN /\ error' = "ValueError"
            /\ pc' = "raised"
            /\ UNCHANGED <<disk, cue_map, cursor, idx>>
       ELSE /\ disk' = Write(disk, ConcatTxt, Data("concat", 0, 0))
            /\ cue_map' = <<>>
            /\ cursor' = 0
            /\ idx' = 1
            /\ pc' = "sprite_probe"
            /\ error' = error
    /\ UNCHANGED <<opened, cmds, fmt, quality, out_file, encodings, variants,
                   out_paths, cue_json, repo, ret>>

\* One iteration of "for p in paths": the line written to the concat list,
\* then ffprobe, which fails or reports dur.
SpriteProbe(ok, dur) ==
    /\ pc = "sprite_probe"
    /\ idx <= Len(args.paths)
    /\ LET p == args.paths[idx]
       IN  /\ disk' = Write(disk, ConcatTxt, Data("concat", idx, 0))
           /\ cmds' = Append(cmds, Cmd("ffprobe", p, ok, <<>>))
           /\ IF ~ok
              THEN /\ error' = "RuntimeError"
                   /\ pc' = "raised"
                   /\ UNCHANGED <<cue_map, cursor, idx>>
              ELSE /\ cue_map' = DictSet(cue_map, Stem(p), cursor, dur)
                   /\ cursor' = cursor + dur
                   /\ idx' = idx + 1
                   /\ pc' = IF idx = Len(args.paths)
                            THEN "sprite_mux" ELSE "sprite_probe"
                   /\ error' = error
    /\ UNCHANGED <<args, opened, fmt, quality, out_file, encodings, variants,
                   out_paths, cue_json, repo, ret>>

\* ffmpeg, then on success the unlink of the concat list, the cue map
\* written beside the sprite, and the return.  A failed ffmpeg may or may
\* not leave a partial sprite file.
SpriteMux(ok, partial) ==
    /\ pc = "sprite_mux"
    /\ cmds' = Append(cmds, Cmd("ffmpeg", ConcatTxt, ok, <<>>))
    /\ IF ~ok
       THEN /\ error' = "CalledProcessError"
            /\ pc' = "raised"
            /\ disk' = IF partial
                       THEN Write(disk, SpritePath, Data("sprite", 0, 0))
                       ELSE disk
            /\ UNCHANGED <<cue_json, ret>>
       ELSE /\ disk' = Finish(Write(disk, SpritePath,
                                    Data("sprite", Len(args.paths), cursor)),
                              Len(cue_map))
            /\ cue_json' = Append(cue_json, cue_map)
            /\ ret' = <<SpritePath>>
            /\ pc' = "returned"
            /\ error' = error
    /\ UNCHANGED <<args, opened, fmt, quality, out_file, encodings, variants,
                   out_paths, cue_map, cursor, idx, repo>>

----------------------------------------------------------------------------
(* GitOpsTool._run *)

CommitMessages == {"asset-update", "add sprites"}

\* What a failing git command printed on its standard output.
GitOutputs ==
    { <<>>,
      <<"nothing to commit">>,
      <<" ", "On branch main", "\n", "nothing to commit", "\n">> }

Pushed == <<"Committed & pushed.">>
CommittedLocally == <<"Committed locally (no remote/push failed).">>
\* f"Git error: {e.output.strip()}"
GitError(output) == <<"Git error: ">> \o Strip(output)

\* "Committed & pushed." whatever git push did
PushResultAlwaysPushed(ok) == Pushed
\* the return of the inner try/except around _git("push")
PushResult(ok) == IF ok THEN Pushed ELSE CommittedLocally

\* a failed commit undone by unstaging
AfterCommitFailureReset(r) == [r EXCEPT !.staged = FALSE]
\* the except branch returns the message and leaves the repository as is
AfterCommitFailure(r) == r

\* _git("add", "."): check_output returns, or raises CalledProcessError
\* carrying the output.
GitAdd(ok, output) ==
    /\ pc = "git_add"
    /\ cmds' = Append(cmds, Cmd("git", "add", ok, IF ok THEN <<>> ELSE output))
    /\ IF ok
       THEN /\ repo' = [repo EXCEPT !.staged = TRUE]
            /\ pc' = "git_commit"
            /\ ret' = ret
       ELSE /\ repo' = repo
            /\ pc' = "returned"
            /\ ret' = GitError(output)
    /\ UNCHANGED <<args, disk, opened, fmt, quality, out_file, encodings,
                   variants, out_paths, cue_map, cursor, idx, cue_json, error>>

GitCommit(ok, output) ==
    /\ pc = "git_commit"
    /\ cmds' = Append(cmds, Cmd("git", "commit", ok, IF ok THEN <<>> ELSE output))
    /\ IF ok
       THEN /\ repo' = [repo EXCEPT !.committed = TRUE]
            /\ pc' = "git_push"
            /\ ret' = ret
       ELSE /\ repo' = AfterCommitFailure(repo)
            /\ pc' = "returned"
            /\ ret' = GitError(output)
    /\ UNCHANGED <<args, disk, opened, fmt, quality, out_file, encodings,
                   variants, out_paths, cue_map, cursor, idx, cue_json, error>>

GitPush(ok) ==
    /\ pc = "git_push"
    /\ cmds' = Append(cmds, Cmd("git", "push", ok, <<>>))
    /\ repo' = IF ok THEN [repo EXCEPT !.pushed = TRUE] ELSE repo
    /\ ret' = PushResult(ok)
    /\ pc' = "returned"
    /\ UNCHANGED <<args, disk, opened, fmt, quality, out_file, encodings,
                   variants, out_paths, cue_map, cursor, idx, cue_json, error>>

GitCall(commit_message) ==
    /\ pc = "idle"
    /\ args' = [tool |-> "GitOpsTool", commit_message |-> commit_message]
    /\ pc' = "git_add"
    /\ UNCHANGED <<disk, opened, cmds, fmt, quality, out_file, encodings,
                   variants, out_paths, cue_map, cursor, idx, cue_json, repo,
                   ret, error>>

----------------------------------------------------------------------------

Init ==
    /\ pc = "idle"
    /\ args = [tool |-> "none"]
    /\ disk = InitialDisk
    /\ opened = {}
    /\ cmds = <<>>
    /\ fmt = <<>>
    /\ quality = 0
    /\ out_file = <<>>
    /\ encodings = <<>>
    /\ variants = <<>>
    /\ out_paths = <<>>
    /\ cue_map = <<>>
    /\ cursor = 0
    /\ idx = 0
    /\ cue_json = <<>>
    /\ repo = [staged |-> FALSE, committed |-> FALSE, pushed |-> FALSE]
    /\ ret = <<>>
    /\ error = ""

Next ==
    \/ \E p \in ImagePaths, f \in Formats, t \in TargetSizes :
           CompressCall(p, f, t)
    \/ /\ pc = "compress_loop"
       /\ \E s \in SizesFor(args.target_size_kb) : CompressEncode(s)

    \/ \E p \in ImagePaths, w \in Widths : ResponsiveCall(p, w)
    \/ ResponsiveVariant
    \/ \E p \in AudioPaths, l \in TargetLufs : NormalizeCall(p, l)
    \/ \E ps \in ClipLists : SpriteCall(ps)
    \/ \E ok \in BOOLEAN, d \in Durations : SpriteProbe(ok, d)
    \/ \E ok \in BOOLEAN, partial \in BOOLEAN : SpriteMux(ok, partial)
    \/ \E m \in CommitMessages : GitCall(m)
    \/ \E ok \in BOOLEAN, o \in GitOutputs : GitAdd(ok, o)
    \/ \E ok \in BOOLEAN, o \in GitOutputs : GitCommit(ok, o)
    \/ \E ok \in BOOLEAN : GitPush(ok)

Spec == Init /\ [][Next]_vars

----------------------------------------------------------------------------
(* Properties *)

Tool == args.tool

\* A cue map is contiguous: first offset 0, each next offset the previous
\* offset plus the previous duration.
Contiguous(m) ==
    /\ m # <<>> => m[1].offset = 0
    /\ \A i \in 1..(Len(m) - 1) : m[i + 1].offset = m[i].offset + m[i].duration

\* C1: every cue map AudioSpriteTool._run writes is contiguous in insertion
\* order (first offset 0, offset(i+1) = offset(i) + duration(i)), hence
\* non-decreasing, also when two clips share a filename stem.
C1_CueMapContiguous ==
    \A k \in DOMAIN cue_json :
        /\ Contiguous(cue_json[k])
        /\ \A i \in 1..(Len(cue_json[k]) - 1) :
               cue_json[k][i].offset <= cue_json[k][i + 1].offset

\* C2: a file ImageCompressTool._run returns that was encoded at a quality
\* above 10 is at most 1024 * target_size_kb bytes long.
C2_OverBudgetOnlyAtFloor ==
    (Tool = "ImageCompressTool" /\ pc = "returned") =>
        (disk[ret[1]].param > MinQuality =>
            disk[ret[1]].size <= KB * args.target_size_kb)

\* C3: once git add and git commit have succeeded, GitOpsTool._run does not
\* raise, and it returns "Committed & pushed." exactly when the push exited
\* successfully and "Committed locally (no remote/push failed)." exactly when
\* it failed; the two strings differ.
C3_PushOutcomeReported ==
    (Tool = "GitOpsTool" /\ Len(cmds) >= 2 /\ cmds[1].ok /\ cmds[2].ok) =>
        /\ error = "" /\ pc # "raised"
        /\ Pushed # CommittedLocally
        /\ pc = "returned" =>
              /\ Len(cmds) = 3 /\ cmds[3].arg = "push"
              /\ ret \in {Pushed, CommittedLocally}
              /\ (ret = Pushed) <=> cmds[3].ok
              /\ (ret = CommittedLocally) <=> ~cmds[3].ok
              /\ repo.pushed <=> cmds[3].ok
        /\ pc # "returned" => (Len(cmds) = 2 /\ ret = <<>>)

C3_Witness ==
    /\ Tool = "GitOpsTool" /\ pc = "returned"
    /\ Len(cmds) = 3 /\ cmds[1].ok /\ cmds[2].ok /\ ~cmds[3].ok
    /\ ret = CommittedLocally

GitSteps == <<"add", "commit", "push">>

\* C4: GitOpsTool._run runs add, commit, push in that order, each only after
\* every earlier one succeeded; a failed add or commit ends the call, without
\* raising, with "Git error: " followed by the failing command's stripped
\* output, and what was staged or committed before stays so.
C4_GitStepsInOrder ==
    Tool = "GitOpsTool" =>
        /\ Len(cmds) <= Len(GitSteps)
        /\ \A i \in DOMAIN cmds : cmds[i].cmd = "git" /\ cmds[i].arg = GitSteps[i]
        /\ \A i \in 1..(Len(cmds) - 1) : cmds[i].ok
        /\ error = "" /\ pc # "raised"
        /\ repo.staged <=> (Len(cmds) >= 1 /\ cmds[1].ok)
        /\ repo.committed <=> (Len(cmds) >= 2 /\ cmds[2].ok)
        /\ \A i \in DOMAIN cmds :
              (i <= 2 /\ ~cmds[i].ok) =>
                  /\ pc = "returned"
                  /\ Len(cmds) = i
                  /\ Head(ret) = "Git error: "
                  /\ Tail(ret) = Strip(cmds[i].output)
                  /\ ~repo.pushed

C4_Witness ==
    /\ Tool = "GitOpsTool" /\ pc = "returned"
    /\ Len(cmds) = 2 /\ cmds[1].ok /\ ~cmds[2].ok
    /\ cmds[2].output # Strip(cmds[2].output)
    /\ repo.staged

RatioOf(key) ==
    CHOOSE it \in {VariantItems[i] : i \in DOMAIN VariantItems} : it.key = key

ReturnedInOrder ==
    (Tool = "ImageResponsiveTool" /\ pc = "returned") =>
        /\ Len(ret) = 3
        /\ \A i \in 1..3 :
              /\ variants[i].key = <<"169", "32", "11">>[i]
              /\ ret[i] = variants[i].path
              /\ ret[i] = Path(IMG_DIR, Append(Stem(args.png_path), variants[i].key), PNG)
              /\ Exists(disk, ret[i])
              /\ disk[ret[i]] = Data("variant", variants[i].width, variants[i].height)

\* C5 as stated: every variant is at most max_width wide and round(width *
\* ratio_h / ratio_w) high, and the paths come back in the order 16:9, 3:2,
\* 1:1.
C5_HeightRounded ==
    Tool = "ImageResponsiveTool" =>
        /\ \A i \in DOMAIN variants :
              /\ variants[i].width <= args.max_width
              /\ variants[i].height =
                     RoundDiv(variants[i].width * RatioOf(variants[i].key).h_ratio,
                              RatioOf(variants[i].key).w_ratio)
        /\ ReturnedInOrder

\* C5 amended: every variant generated is max_width wide and floor(width *
\* ratio_h / ratio_w) high, and a call that returns returns the three paths
\* in the order 16:9, 3:2, 1:1.
C5_HeightTruncated ==
    Tool = "ImageResponsiveTool" =>
        /\ \A i \in DOMAIN variants :
              LET v == variants[i]
                  r == RatioOf(v.key)
              IN  /\ v.width = args.max_width
                  /\ v.height * r.w_ratio <= v.width * r.h_ratio
                  /\ v.width * r.h_ratio < (v.height + 1) * r.w_ratio
        /\ ReturnedInOrder

C5_Witness ==
    /\ Tool = "ImageResponsiveTool" /\ pc = "returned"
    /\ args.max_width = 3
    /\ variants[1].height = 1
    /\ RoundDiv(3 * 9, 16) = 2

\* C6: ImageResponsiveTool, ImageCompressTool and AudioNormalizeTool leave
\* the content of the source file they read as it was.
C6_SourceUntouched ==
    Tool \in {"ImageResponsiveTool", "ImageCompressTool", "AudioNormalizeTool"} =>
        \A p \in opened : Exists(disk, p) /\ disk[p] = SourceData

\* C7: ImageCompressTool._run performs at most 8 encodings, at the qualities
\* 80, 70, ..., 10 in that order, can always take its next step until it has
\* returned or raised, and returns the source path with its extension
\* replaced by "avif" or "webp", the lower-cased format.
C7_CompressTerminates ==
    Tool = "ImageCompressTool" =>
        /\ Len(encodings) <= 8
        /\ \A i \in DOMAIN encodings :
              /\ encodings[i].quality = 80 - 10 * (i - 1)
              /\ encodings[i].quality >= 10
        /\ pc \in {"compress_loop", "returned", "raised"}
        /\ pc = "compress_loop" => (Len(encodings) < 8 /\ ENABLED Next)
        /\ pc = "returned" =>
              /\ Len(encodings) >= 1
              /\ Len(ret) = 1
              /\ ret[1].dir = args.png_path.dir
              /\ ret[1].stem = args.png_path.stem
              /\ ret[1].ext \in {AVIF, WEBP}
              /\ Upper(ret[1].ext) = Upper(args.fmt)

C7_Witness ==
    /\ Tool = "ImageCompressTool" /\ pc = "returned"
    /\ Len(encodings) = 8
    /\ encodings[8].size > encodings[7].size
    /\ ~FitsBudget(encodings[8].size, args.target_size_kb)
    /\ args.fmt = <<"W", "e", "b", "P">>
    /\ args.png_path.ext = PNG

\* C8: AudioSpriteTool._run with fewer than two clips raises ValueError
\* having created no file and run no command; ImageCompressTool._run with a
\* format that is neither AVIF nor WEBP in any letter case raises ValueError
\* having opened no image and written no file.
C8_InvalidArgumentsRejected ==
    /\ (Tool = "AudioSpriteTool" /\ Len(args.paths) < 2) =>
          /\ pc = "raised" /\ error = "ValueError"
          /\ disk = InitialDisk
          /\ cmds = <<>> /\ cue_json = <<>> /\ ret = <<>>
    /\ (Tool = "ImageCompressTool"
          /\ Lower(args.fmt) \notin {AVIF, WEBP}) =>
          /\ pc = "raised" /\ error = "ValueError"
          /\ disk = InitialDisk
          /\ opened = {} /\ encodings = <<>> /\ ret = <<>>
    /\ (Tool = "ImageCompressTool" /\ Lower(args.fmt) \in {AVIF, WEBP}) =>
          error # "ValueError"

C8_Witness ==
    /\ Tool = "AudioSpriteTool" /\ pc = "raised"
    /\ Len(args.paths) = 1

\* The encodings whose size in bytes is within 1024 * target_size_kb.
WithinBudget ==
    { i \in DOMAIN encodings : encodings[i].size <= KB * args.target_size_kb }

\* C9: when ImageCompressTool._run returns, the file at the output path is
\* the first encoding of 80, 70, ..., 10 whose size is within the budget, no
\* encoding having followed it; when none is, it is the quality-10 encoding,
\* and the call has returned normally all the same.
C9_FirstFitReturned ==
    (Tool = "ImageCompressTool" /\ pc = "returned") =>
        /\ error = ""
        /\ IF WithinBudget # {}
           THEN LET first == CHOOSE i \in WithinBudget : \A j \in WithinBudget : i <= j
                IN  /\ Len(encodings) = first
                    /\ disk[ret[1]] = Data("encoded", encodings[first].quality,
                                           encodings[first].size)
           ELSE /\ Len(encodings) = 8
                /\ disk[ret[1]] = Data("encoded", 10, encodings[8].size)

Probes == { i \in DOMAIN cmds : cmds[i].cmd = "ffprobe" }
Muxes == { i \in DOMAIN cmds : cmds[i].cmd = "ffmpeg" }

\* C10: for two or more clips, the cue map file exists only after every clip
\* was probed and the mux succeeded; a failed call leaves no cue map and
\* leaves the concat list on disk; a probe failure is raised before any mux;
\* a successful call leaves the sprite and the cue map, no concat list, and
\* returns the sprite's path.
C10_SpriteOutputs ==
    (Tool = "AudioSpriteTool" /\ Len(args.paths) >= 2) =>
        /\ Exists(disk, CuePath) =>
              /\ pc = "returned"
              /\ Cardinality(Probes) = Len(args.paths)
              /\ \A i \in Probes : cmds[i].ok /\ cmds[i].arg = args.paths[i]
              /\ Muxes = {Len(cmds)} /\ cmds[Len(cmds)].ok
        /\ pc = "raised" =>
              /\ ~Exists(disk, CuePath) /\ cue_json = <<>>
              /\ Exists(disk, ConcatTxt)
              /\ ~cmds[Len(cmds)].ok
              /\ error = (IF cmds[Len(cmds)].cmd = "ffprobe"
                          THEN "RuntimeError" ELSE "CalledProcessError")
        /\ (\E i \in Probes : ~cmds[i].ok) => (Muxes = {} /\ pc = "raised")
        /\ pc = "returned" =>
              /\ Exists(disk, SpritePath) /\ Exists(disk, CuePath)
              /\ ~Exists(disk, ConcatTxt)
              /\ ret = <<SpritePath>>
              /\ Len(cue_json) = 1

C10_Witness ==
    /\ Tool = "AudioSpriteTool" /\ pc = "raised"
    /\ error = "CalledProcessError"
    /\ Exists(disk, ConcatTxt) /\ Exists(disk, SpritePath)
    /\ ~Exists(disk, CuePath)

====
